---- MODULE Spec2Model ----
(***************************************************************************)
(* Model of pagerank.py: transition_model, sample_pagerank and             *)
(* iterate_pagerank, called on a corpus built by crawl.                    *)
(*                                                                         *)
(* Numbers.  The program computes in Python floats.  Here a real x is the  *)
(* integer x * Unit (fixed point), a division is an integer division, and  *)
(* a damping factor is an integer number of hundredths.  Unit is divisible *)
(* by 100 * k for every page count and link count k the bounds allow, so   *)
(* the quotients 1/N, (1-d)/N and d/L are exact; only the quotients of a   *)
(* sweep of iterate_pagerank truncate, by less than 1/Unit each.           *)
(*                                                                         *)
(* Objects.  A Python dict holds references.  corpus maps a page to the    *)
(* reference of its set of links, heap maps a reference to the object's    *)
(* contents, and corpus.copy() copies the references, not the objects.     *)
(* Pages are 1..N in the dict's iteration order.                           *)
(***************************************************************************)
EXTENDS Integers, FiniteSets, Sequences, TLC

MaxPages == 3
MaxSamples == 2

Unit == 1200000
Tolerance == Unit \div 1000
DAMPING == 85
Dampings == {0, 50, DAMPING, 100}

(* corpus, heap: the caller's dict and the objects its values refer to.
   pc, call, outcome, result: where the current call is, which function it
   is, how it ended ("returned" or "error", an exception) and what it
   returned.  damping_factor, n: its arguments.  The others are the locals
   of sample_pagerank (i counts passes of its loop) and of iterate_pagerank;
   contrib[page][q] records what linking page q added to the new rank of
   page at lines 179-181 in the latest sweep. *)
VARIABLES corpus, heap, pc, call, outcome, result, damping_factor, n,
          current_page, estimated_pageranks, i,
          corpus_copy, pagerank_values, old_pagerank_values, contrib

vars == <<corpus, heap, pc, call, outcome, result, damping_factor, n,
          current_page, estimated_pageranks, i,
          corpus_copy, pagerank_values, old_pagerank_values, contrib>>

sampleLocals == <<current_page, estimated_pageranks, i>>
iterateLocals == <<corpus_copy, pagerank_values, old_pagerank_values, contrib>>

Pages == DOMAIN corpus
N == Cardinality(Pages)
Links(p) == heap[corpus[p]]
ValidDamping(d) == 0 < d /\ d < 100
Abs(x) == IF x < 0 THEN -x ELSE x

RECURSIVE SumOver(_, _)
SumOver(f, S) ==
    IF S = {} THEN 0
    ELSE LET x == CHOOSE y \in S : TRUE IN f[x] + SumOver(f, S \ {x})

Sum(f) == SumOver(f, DOMAIN f)

(* crawl: every page maps to a set of other pages of the corpus. *)
Init ==
    /\ \E k \in 0..MaxPages :
         \E links \in [1..k -> SUBSET (1..k)] :
            /\ \A p \in 1..k : p \notin links[p]
            /\ corpus = [p \in 1..k |-> p]
            /\ heap = links
    /\ pc = "idle"
    /\ call = "none"
    /\ outcome = "none"
    /\ result = <<>>
    /\ damping_factor = 0
    /\ n = 0
    /\ current_page = 0
    /\ estimated_pageranks = <<>>
    /\ i = 0
    /\ corpus_copy = <<>>
    /\ pagerank_values = <<>>
    /\ old_pagerank_values = <<>>
    /\ contrib = <<>>

(* The objects the caller still holds between two calls. *)
Collect(h) == [r \in {corpus[p] : p \in Pages} |-> h[r]]

CanCall == pc = "idle"

ResetSample ==
    /\ current_page' = 0
    /\ estimated_pageranks' = <<>>
    /\ i' = 0

ResetIterate ==
    /\ corpus_copy' = <<>>
    /\ pagerank_values' = <<>>
    /\ old_pagerank_values' = <<>>
    /\ contrib' = <<>>

(* transition_model, lines 63-76 *)
transition_model(c, h, page, d) ==
    LET num == Cardinality(DOMAIN c)
    IN [page_corpus \in DOMAIN c |->
          IF page_corpus \in h[c[page]]
          THEN (d * Unit) \div (100 * Cardinality(h[c[page]]))
               + ((100 - d) * Unit) \div (100 * num)
          ELSE ((100 - d) * Unit) \div (100 * num)]

CallTransitionModel ==
    /\ CanCall
    /\ \E page \in Pages, d \in Dampings :
         /\ damping_factor' = d
         /\ result' = transition_model(corpus, heap, page, d)
    /\ pc' = "done"
    /\ call' = "transition_model"
    /\ outcome' = "returned"
    /\ n' = 0
    /\ ResetSample
    /\ ResetIterate
    /\ UNCHANGED <<corpus, heap>>

(* sample_pagerank, lines 90-96 on an empty corpus: random.choice([])
   raises IndexError. *)
SamplePagerankEmpty ==
    /\ CanCall
    /\ Pages = {}
    /\ \E d \in Dampings, k \in 0..MaxSamples :
         /\ damping_factor' = d
         /\ n' = k
    /\ pc' = "done"
    /\ call' = "sample_pagerank"
    /\ outcome' = "error"
    /\ result' = <<>>
    /\ ResetSample
    /\ ResetIterate
    /\ UNCHANGED <<corpus, heap>>

(* sample_pagerank, lines 90-96 *)
SamplePagerankStart ==
    /\ CanCall
    /\ \E d \in Dampings, k \in 0..MaxSamples, page \in Pages :
         /\ damping_factor' = d
         /\ n' = k
         /\ current_page' = page
         /\ estimated_pageranks' = (page :> 1)
    /\ i' = 0
    /\ pc' = "sampling"
    /\ call' = "sample_pagerank"
    /\ outcome' = "none"
    /\ result' = <<>>
    /\ ResetIterate
    /\ UNCHANGED <<corpus, heap>>

(* CountVisit without the increment of line 112 *)
CountVisitNoIncrement(est, page) ==
    IF page \notin DOMAIN est
    THEN est @@ (page :> 1)
    ELSE [est EXCEPT ![page] = 1]

(* lines 109-112 *)
CountVisit(est, page) ==
    IF page \notin DOMAIN est
    THEN est @@ (page :> 1)
    ELSE [est EXCEPT ![page] = est[page] + 1]

(* One iteration of the loop of lines 99-112.  random.choices draws a page
   with probability proportional to its weight, so a page of weight 0 is
   never drawn. *)
SamplePagerankStep ==
    /\ pc = "sampling"
    /\ i < n - 1
    /\ LET trans_model == transition_model(corpus, heap, current_page, damping_factor)
       IN \E page \in DOMAIN trans_model :
            /\ trans_model[page] > 0
            /\ current_page' = page
            /\ estimated_pageranks' = CountVisit(estimated_pageranks, page)
    /\ i' = i + 1
    /\ UNCHANGED <<corpus, heap, pc, call, outcome, result, damping_factor, n>>
    /\ UNCHANGED iterateLocals

(* random.choices raises ValueError when the weights total zero
   (damping factor 1 on a page without links). *)
SamplePagerankZeroWeights ==
    /\ pc = "sampling"
    /\ i < n - 1
    /\ Sum(transition_model(corpus, heap, current_page, damping_factor)) = 0
    /\ pc' = "done"
    /\ outcome' = "error"
    /\ UNCHANGED <<corpus, heap, call, result, damping_factor, n>>
    /\ UNCHANGED sampleLocals
    /\ UNCHANGED iterateLocals

(* lines 115-118 *)
Normalize(est, k) == [page \in DOMAIN est |-> (est[page] * Unit) \div k]

SamplePagerankReturn ==
    /\ pc = "sampling"
    /\ i >= n - 1
    /\ n # 0
    /\ estimated_pageranks' = Normalize(estimated_pageranks, n)
    /\ result' = estimated_pageranks'
    /\ pc' = "done"
    /\ outcome' = "returned"
    /\ UNCHANGED <<corpus, heap, call, damping_factor, n, current_page, i>>
    /\ UNCHANGED iterateLocals

(* line 116 with n = 0: ZeroDivisionError *)
SamplePagerankDivZero ==
    /\ pc = "sampling"
    /\ i >= n - 1
    /\ n = 0
    /\ pc' = "done"
    /\ outcome' = "error"
    /\ UNCHANGED <<corpus, heap, call, result, damping_factor, n>>
    /\ UNCHANGED sampleLocals
    /\ UNCHANGED iterateLocals

(* DanglingFix that leaves the page itself out of its new list *)
DanglingFixOthers(cc, h) ==
    LET keys == DOMAIN cc
        num == Cardinality(keys)
        dangling == {page \in keys : h[cc[page]] = {}}
    IN [corpus_copy |-> [page \in keys |->
                           IF page \in dangling THEN num + page ELSE cc[page]],
        heap |-> h @@ [r \in {num + page : page \in dangling} |-> keys \ {r - num}]]

(* DanglingFix that fills the empty object itself, which the copy shares
   with the caller's corpus, instead of binding the key to a new list *)
DanglingFixInPlace(cc, h) ==
    LET keys == DOMAIN cc
        dangling == {page \in keys : h[cc[page]] = {}}
    IN [corpus_copy |-> cc,
        heap |-> [r \in DOMAIN h |->
                    IF \E page \in dangling : cc[page] = r THEN keys ELSE h[r]]]

(* lines 158-161: a page whose object is empty gets a new list of all the
   keys; the new object of page p has reference num + p. *)
DanglingFix(cc, h) ==
    LET keys == DOMAIN cc
        num == Cardinality(keys)
        dangling == {page \in keys : h[cc[page]] = {}}
    IN [corpus_copy |-> [page \in keys |->
                           IF page \in dangling THEN num + page ELSE cc[page]],
        heap |-> h @@ [r \in {num + page : page \in dangling} |-> keys]]

(* iterate_pagerank, lines 150-161 *)
IteratePagerankStart ==
    /\ CanCall
    /\ \E d \in Dampings : damping_factor' = d
    /\ LET fixed == DanglingFix(corpus, heap)
       IN /\ corpus_copy' = fixed.corpus_copy
          /\ heap' = fixed.heap
    /\ pagerank_values' = [page \in Pages |-> Unit \div N]
    /\ old_pagerank_values' = pagerank_values'
    /\ contrib' = [page \in Pages |-> [q \in Pages |-> 0]]
    /\ pc' = "iterating"
    /\ call' = "iterate_pagerank"
    /\ outcome' = "none"
    /\ result' = <<>>
    /\ n' = 0
    /\ ResetSample
    /\ UNCHANGED corpus

(* are_dicts_approx_equal with the test of line 135 inverted *)
are_dicts_never_equal(dict1, dict2, tolerance) ==
    /\ Cardinality(DOMAIN dict1) # Cardinality(DOMAIN dict2)
    /\ \A key \in DOMAIN dict1 :
         /\ key \in DOMAIN dict2
         /\ ~ (Abs(dict1[key] - dict2[key]) > tolerance)

(* are_dicts_approx_equal, lines 135-146 *)
are_dicts_approx_equal(dict1, dict2, tolerance) ==
    /\ Cardinality(DOMAIN dict1) = Cardinality(DOMAIN dict2)
    /\ \A key \in DOMAIN dict1 :
         /\ key \in DOMAIN dict2
         /\ ~ (Abs(dict1[key] - dict2[key]) > tolerance)

(* lines 172-181: what linking_page adds to the new rank of page, given the
   rank read for linking_page *)
LinkTerm(page, linking_page, rank) ==
    LET len == Cardinality(heap[corpus_copy[linking_page]])
    IN IF page \in heap[corpus_copy[linking_page]] /\ len # 0
       THEN (damping_factor * rank) \div (100 * len)
       ELSE 0

RECURSIVE new_pagerank(_, _)
RECURSIVE SumLinkTerms(_, _, _)

(* line 180 reads pagerank_values[linking_page], which line 186 has already
   overwritten in this sweep when linking_page comes before page in the
   dict's order. *)
ReadRank(page, linking_page, pr) ==
    IF linking_page < page THEN new_pagerank(linking_page, pr) ELSE pr[linking_page]

(* lines 177-181: the terms of the linking pages 1..k *)
SumLinkTerms(page, k, pr) ==
    IF k = 0 THEN 0
    ELSE LinkTerm(page, k, ReadRank(page, k, pr)) + SumLinkTerms(page, k - 1, pr)

(* lines 169-181 for one page of a sweep that starts from the ranks pr *)
new_pagerank(page, pr) ==
    ((100 - damping_factor) * Unit) \div (100 * N) + SumLinkTerms(page, N, pr)

(* lines 165-186: one sweep over the pages in the dict's order *)
Sweep(pr) ==
    [pagerank_values |-> [page \in Pages |-> new_pagerank(page, pr)],
     old_pagerank_values |-> pr,
     contrib |-> [page \in Pages |->
                    [q \in Pages |-> LinkTerm(page, q, ReadRank(page, q, pr))]]]

(* One pass of the loop of lines 164-190, and the return of line 192 when
   the pass has converged. *)
IteratePagerankSweep ==
    /\ pc = "iterating"
    /\ \E st \in {Sweep(pagerank_values)} :
         /\ pagerank_values' = st.pagerank_values
         /\ old_pagerank_values' = st.old_pagerank_values
         /\ contrib' = st.contrib
         /\ IF are_dicts_approx_equal(st.old_pagerank_values, st.pagerank_values, Tolerance)
            THEN /\ pc' = "done"
                 /\ outcome' = "returned"
                 /\ result' = st.pagerank_values
            ELSE UNCHANGED <<pc, outcome, result>>
    /\ UNCHANGED <<corpus, heap, call, damping_factor, n, corpus_copy>>
    /\ UNCHANGED sampleLocals

(* main, lines 15-20: the caller is done with a call's result and its corpus
   is all that is left; the objects only the call held are gone. *)
CallerContinues ==
    /\ pc = "done"
    /\ pc' = "idle"
    /\ call' = "none"
    /\ outcome' = "none"
    /\ result' = <<>>
    /\ damping_factor' = 0
    /\ n' = 0
    /\ heap' = Collect(heap)
    /\ ResetSample
    /\ ResetIterate
    /\ UNCHANGED corpus

Next ==
    \/ CallTransitionModel
    \/ SamplePagerankEmpty
    \/ SamplePagerankStart
    \/ SamplePagerankStep
    \/ SamplePagerankZeroWeights
    \/ SamplePagerankReturn
    \/ SamplePagerankDivZero
    \/ IteratePagerankStart
    \/ IteratePagerankSweep
    \/ CallerContinues

Spec == Init /\ [][Next]_vars


(* iterate_pagerank alone, called again and again on the same corpus. *)
IterateNext ==
    \/ IteratePagerankStart
    \/ IteratePagerankSweep
    \/ CallerContinues

IterateSpec == Init /\ [][IterateNext]_vars

(* The loop of iterate_pagerank keeps running: nothing suspends it. *)
IterateLiveSpec == IterateSpec /\ WF_vars(IteratePagerankSweep)

----------------------------------------------------------------------------
(* Properties *)

Returned(f) == pc = "done" /\ call = f /\ outcome = "returned"

(* The values of f sum to 1, up to the truncation of one quotient per entry. *)
SumsToOne(f) == Abs(Sum(f) - Unit) <= Cardinality(DOMAIN f)

(* C1: for a valid damping factor and any page of the corpus, dangling or
   not, transition_model returns one entry per page and the entries sum
   to 1. *)
C1_TransitionModelIsDistribution ==
    (Returned("transition_model") /\ ValidDamping(damping_factor))
        => (DOMAIN result = Pages /\ SumsToOne(result))

(* C2: on a non-empty corpus and a valid damping factor, iterate_pagerank
   returns one rank per page and the ranks sum to 1 within 0.001. *)
C2_IterateSumsToOne ==
    (Returned("iterate_pagerank") /\ Pages # {} /\ ValidDamping(damping_factor))
        => (DOMAIN result = Pages /\ Abs(Sum(result) - Unit) <= Tolerance)

(* C3: on a corpus without pages, sample_pagerank and iterate_pagerank end
   in an error and return no mapping. *)
C3_EmptyCorpusRejected ==
    (pc = "done" /\ call \in {"sample_pagerank", "iterate_pagerank"} /\ Pages = {})
        => outcome = "error"

(* C4: with a damping factor outside (0,1), each of the three functions ends
   in an error before it computes anything: it is never in its loop and
   never returns. *)
C4_InvalidDampingRejected ==
    (call # "none" /\ ~ ValidDamping(damping_factor))
        => (pc = "done" /\ outcome = "error")

(* C5: on a non-empty corpus and a valid damping factor, the loop of
   iterate_pagerank reaches a sweep in which no rank changes by more than
   0.001, and the function returns. *)
C5_IterateTerminates ==
    (pc = "iterating" /\ Pages # {} /\ ValidDamping(damping_factor))
        ~> (/\ Returned("iterate_pagerank")
            /\ \A page \in Pages :
                 Abs(pagerank_values[page] - old_pagerank_values[page]) <= Tolerance)

(* iterate_pagerank has returned after a sweep that still changed a rank. *)
C5_Witness ==
    /\ Returned("iterate_pagerank")
    /\ ValidDamping(damping_factor)
    /\ N >= 2
    /\ \E page \in Pages : pagerank_values[page] # old_pagerank_values[page]

(* C6: for a non-empty corpus, a valid damping factor and n >= 1, whatever
   pages are drawn, sample_pagerank has counted one visit for the first page
   and one per step, n in all when it returns; the keys it returns are pages
   of the corpus, every value is a number of visits over n, in (0,1], and
   the values sum to 1. *)
C6_SampleCountsVisits ==
    (call = "sample_pagerank" /\ Pages # {} /\ ValidDamping(damping_factor) /\ n >= 1)
        => /\ pc = "sampling" =>
                /\ i <= n - 1
                /\ Sum(estimated_pageranks) = i + 1
                /\ DOMAIN estimated_pageranks \subseteq Pages
                /\ current_page \in DOMAIN estimated_pageranks
                /\ \A page \in DOMAIN estimated_pageranks : estimated_pageranks[page] >= 1
           /\ pc = "done" =>
                /\ outcome = "returned"
                /\ i = n - 1
                /\ DOMAIN result \subseteq Pages
                /\ current_page \in DOMAIN result
                /\ \A page \in DOMAIN result :
                     /\ 0 < result[page] /\ result[page] <= Unit
                     /\ \E visits \in 1..n : result[page] * n = visits * Unit
                /\ Sum(result) = Unit

(* sample_pagerank has returned after drawing the page it was on again. *)
C6_Witness ==
    /\ Returned("sample_pagerank")
    /\ ValidDamping(damping_factor)
    /\ n >= 2
    /\ N >= 2
    /\ result = (current_page :> Unit)

(* C7: on the corpus of one page, which has no links, and a valid damping
   factor, iterate_pagerank and sample_pagerank (n >= 1) return rank 1 for
   the page. *)
C7_SinglePageRankOne ==
    (/\ pc = "done"
     /\ call \in {"sample_pagerank", "iterate_pagerank"}
     /\ N = 1
     /\ ValidDamping(damping_factor)
     /\ (call = "sample_pagerank" => n >= 1))
        => (outcome = "returned" /\ result = (1 :> Unit))

(* iterate_pagerank has returned on the corpus of one page. *)
C7_Witness ==
    /\ Returned("iterate_pagerank")
    /\ N = 1
    /\ Links(1) = {}
    /\ damping_factor = DAMPING

(* C8: no step of either estimator changes the caller's corpus: every page
   keeps its set of links, a dangling page included. *)
C8_CorpusUnchanged ==
    [][/\ corpus' = corpus
       /\ \A page \in Pages : heap'[corpus'[page]] = heap[corpus[page]]]_vars

(* iterate_pagerank has returned, a dangling page of the corpus links to
   every page in the working copy and is still dangling in the corpus. *)
C8_Witness ==
    /\ Returned("iterate_pagerank")
    /\ N >= 2
    /\ \E page \in Pages :
         /\ Links(page) = {}
         /\ corpus_copy[page] # corpus[page]
         /\ heap[corpus_copy[page]] = Pages

(* lines 169-181 read from the ranks of the previous sweep only *)
SynchronousSweep(pr) ==
    [page \in Pages |->
       ((100 - damping_factor) * Unit) \div (100 * N)
       + Sum([q \in Pages |-> LinkTerm(page, q, pr[q])])]

(* C9: a sweep of iterate_pagerank computes every new rank from the ranks of
   the previous sweep. *)
C9_SweepIsSynchronous ==
    [][pc = "iterating" => pagerank_values' = SynchronousSweep(pagerank_values)]_vars

(* C10: in the working copy a dangling page links to every page and the
   other pages keep their links, and in a sweep a dangling page adds the
   same amount to the new rank of every page. *)
C10_DanglingContributesEqually ==
    (call = "iterate_pagerank" /\ pc \in {"iterating", "done"})
        => /\ \A page \in Pages :
                heap[corpus_copy[page]] = IF Links(page) = {} THEN Pages ELSE Links(page)
           /\ \A q \in Pages :
                Links(q) = {} =>
                    \A p1, p2 \in Pages : contrib[p1][q] = contrib[p2][q]
====
